---- MODULE Spec2Model ----
(***************************************************************************)
(* The Minesweeper engine GameService (game.service.ts) as a state machine. *)
(* The state is the BehaviorSubject's current GameState (snapshot), the     *)
(* timer subscription and the localStorage item 'ms-best-times'; Date.now() *)
(* is an input of the actions that read it.                                 *)
(* Every public method is one action; the private helpers are operators.    *)
(***************************************************************************)
EXTENDS Integers, Sequences, FiniteSets, TLC

\* ------------------------------------------------------------------ bounds
\* Boards have at most MaxRows rows, MaxCols columns and MaxCells cells.
MaxRows == 2
MaxCols == 4
MaxCells == 6
\* newGame is called with at most MaxMines mines.
MaxMines == 2
\* In TimeSpec Date.now() takes the values 1..MaxTime, on boards of one row and at
\* most TimeCols columns.
MaxTime == 2
TimeCols == 3

\* --------------------------------------------------------------- constants
Ready == "ready"
Playing == "playing"
Won == "won"
Lost == "lost"

\* startedAt?: number is absent until the first reveal; Date.now() is never 0.
Undefined == 0
\* current[difficulty] of a difficulty that has no stored time.
NoEntry == -1
\* hintsLeft of a fresh game.
InitialHints == 3

\* The difficulties games are created with.
Difficulties == {"Beginner", "Custom"}

VARIABLES
  snapshot,   \* _state$.getValue(): the current GameState
  timerSub,   \* whether the field timerSub holds a subscription
  timers,     \* number of live interval(200) subscriptions
  store       \* localStorage 'ms-best-times': difficulty -> best time or NoEntry

vars == <<snapshot, timerSub, timers, store>>

\* ----------------------------------------------------------------- helpers
Min(a, b) == IF a < b THEN a ELSE b
Max(a, b) == IF a > b THEN a ELSE b

\* board.length and board[0].length
BoardRows(board) == Cardinality(DOMAIN board)
BoardCols(board) == IF DOMAIN board = {} THEN 0 ELSE Cardinality(DOMAIN board[0])

\* A factory whose tiles start revealed.
NewTile_revealed(y, x) ==
  [x |-> x, y |-> y, isMine |-> FALSE, isRevealed |-> TRUE, isFlagged |-> FALSE,
   adjacentMines |-> 0]

\* The factory initialState passes to createMatrix.
NewTile(y, x) ==
  [x |-> x, y |-> y, isMine |-> FALSE, isRevealed |-> FALSE, isFlagged |-> FALSE,
   adjacentMines |-> 0]

\* createMatrix with that factory, its only one.
createMatrix(rows, cols) ==
  [y \in 0..(rows - 1) |-> [x \in 0..(cols - 1) |-> NewTile(y, x)]]

initialState(rows, cols, mines, difficulty) ==
  [board |-> createMatrix(rows, cols),
   rows |-> rows, cols |-> cols, mines |-> mines,
   flagsPlaced |-> 0, minesLeft |-> mines,
   status |-> Ready, firstClick |-> TRUE,
   startedAt |-> Undefined,
   elapsedMs |-> 0, difficulty |-> difficulty, hintsLeft |-> InitialHints]

\* undefined, as a tile: what tileAt returns out of range and what indexing a row
\* beyond its length gives.
NoTile ==
  [x |-> -1, y |-> -1, isMine |-> FALSE, isRevealed |-> FALSE, isFlagged |-> FALSE,
   adjacentMines |-> 0]
\* The TypeError of indexing a row that does not exist (undefined[x]).
TypeError ==
  [x |-> -2, y |-> -2, isMine |-> FALSE, isRevealed |-> FALSE, isFlagged |-> FALSE,
   adjacentMines |-> 0]

\* board[y][x] as JavaScript evaluates it.
Index2(board, y, x) ==
  IF y \notin DOMAIN board THEN TypeError
  ELSE IF x \notin DOMAIN board[y] THEN NoTile
  ELSE board[y][x]

\* A range check whose bound on y is off by one.
tileAt_rowOffByOne(s, y, x) ==
  IF y < 0 \/ y > s.rows \/ x < 0 \/ x >= s.cols THEN NoTile
  ELSE Index2(s.board, y, x)

tileAt(s, y, x) ==
  IF y < 0 \/ y >= s.rows \/ x < 0 \/ x >= s.cols THEN NoTile
  ELSE Index2(s.board, y, x)

\* The (dy, dx) pairs in the order of the two nested loops, (0, 0) included.
Offsets9 ==
  << <<-1, -1>>, <<-1, 0>>, <<-1, 1>>, <<0, -1>>, <<0, 0>>, <<0, 1>>,
     <<1, -1>>, <<1, 0>>, <<1, 1>> >>
Offsets8 == SelectSeq(Offsets9, LAMBDA o : ~(o[1] = 0 /\ o[2] = 0))

\* Neighbours that share an edge only: the diagonal ones are left out.
neighbors_edgesOnly(board, x, y) ==
  LET ok(o) == /\ y + o[1] >= 0 /\ y + o[1] < BoardRows(board)
               /\ x + o[2] >= 0 /\ x + o[2] < BoardCols(board)
               /\ (o[1] = 0 \/ o[2] = 0)
      sel == SelectSeq(Offsets8, ok)
  IN [i \in 1..Len(sel) |-> board[y + sel[i][1]][x + sel[i][2]]]

neighbors(board, x, y) ==
  LET ok(o) == /\ y + o[1] >= 0 /\ y + o[1] < BoardRows(board)
               /\ x + o[2] >= 0 /\ x + o[2] < BoardCols(board)
      sel == SelectSeq(Offsets8, ok)
  IN [i \in 1..Len(sel) |-> board[y + sel[i][1]][x + sel[i][2]]]

\* The number of tiles of a sequence whose flag named field is set:
\* xs.filter(t => t[field]).length
CountSeq(xs, field) == Len(SelectSeq(xs, LAMBDA t : t[field]))

recalculateAdjacency(board) ==
  [y \in DOMAIN board |-> [x \in DOMAIN board[y] |->
     IF board[y][x].isMine
     THEN [board[y][x] EXCEPT !.adjacentMines = 0]
     ELSE [board[y][x] EXCEPT !.adjacentMines =
             CountSeq(neighbors(board, x, y), "isMine")]]]

\* A loss that turns every tile over, not only the mines.
revealAllMines_everyTile(board) ==
  [y \in DOMAIN board |-> [x \in DOMAIN board[y] |->
     [board[y][x] EXCEPT !.isRevealed = TRUE]]]

\* A loss that takes the flags off the mines it turns over.
revealAllMines_flagsTakenOff(board) ==
  [y \in DOMAIN board |-> [x \in DOMAIN board[y] |->
     IF board[y][x].isMine
     THEN [board[y][x] EXCEPT !.isRevealed = TRUE, !.isFlagged = FALSE]
     ELSE board[y][x]]]

revealAllMines(board) ==
  [y \in DOMAIN board |-> [x \in DOMAIN board[y] |->
     IF board[y][x].isMine THEN [board[y][x] EXCEPT !.isRevealed = TRUE]
     ELSE board[y][x]]]

Cells(board) == {<<y, x>> \in (DOMAIN board) \X (0..(BoardCols(board) - 1)) : TRUE}

countHiddenNonMines(board) ==
  Cardinality({p \in Cells(board) :
                 ~board[p[1]][p[2]].isMine /\ ~board[p[1]][p[2]].isRevealed})

\* ------------------------------------------------------------- flood fill
\* An enqueue whose bound on x is off by one: the last column is never entered.
enqueue_lastColumnOut(q, rows, cols, x, y) ==
  IF x < 0 \/ x >= cols - 1 \/ y < 0 \/ y >= rows THEN q
  ELSE IF <<y, x>> \in q.visited THEN q
  ELSE [queue |-> Append(q.queue, [x |-> x, y |-> y]),
        visited |-> q.visited \cup {<<y, x>>},
        pushed |-> q.pushed + 1]

\* An enqueue without the visited.has(key) test: a coordinate is pushed every time
\* a neighbour asks for it.
enqueue_visitedIgnored(q, rows, cols, x, y) ==
  IF x < 0 \/ x >= cols \/ y < 0 \/ y >= rows THEN q
  ELSE [queue |-> Append(q.queue, [x |-> x, y |-> y]),
        visited |-> q.visited \cup {<<y, x>>},
        pushed |-> q.pushed + 1]

\* enqueue(x, y) of revealFloodFill on the pair (queue, visited).
enqueue(q, rows, cols, x, y) ==
  IF x < 0 \/ x >= cols \/ y < 0 \/ y >= rows THEN q
  ELSE IF <<y, x>> \in q.visited THEN q
  ELSE [queue |-> Append(q.queue, [x |-> x, y |-> y]),
        visited |-> q.visited \cup {<<y, x>>},
        pushed |-> q.pushed + 1]

RECURSIVE EnqueueNeighbors(_, _, _, _, _, _)
EnqueueNeighbors(q, rows, cols, x, y, i) ==
  IF i > Len(Offsets8) THEN q
  ELSE EnqueueNeighbors(enqueue(q, rows, cols, x + Offsets8[i][2], y + Offsets8[i][1]),
                        rows, cols, x, y, i + 1)

\* A loop that goes on from numbered tiles as it does from zero tiles.
RECURSIVE FloodLoop_expandsNumbers(_, _, _, _, _)
FloodLoop_expandsNumbers(out, q, rows, cols, popped) ==
  IF q.queue = <<>> THEN [out |-> out, visited |-> q.visited, pushed |-> q.pushed,
                          popped |-> popped]
  ELSE LET p == Head(q.queue)
           t == out[p.y][p.x]
           rest == [q EXCEPT !.queue = Tail(q.queue)]
       IN IF t.isRevealed \/ t.isFlagged
          THEN FloodLoop_expandsNumbers(out, rest, rows, cols, popped + 1)
          ELSE LET out2 == [out EXCEPT ![p.y][p.x].isRevealed = TRUE]
               IN IF ~t.isMine
                  THEN FloodLoop_expandsNumbers(
                         out2, EnqueueNeighbors(rest, rows, cols, p.x, p.y, 1),
                         rows, cols, popped + 1)
                  ELSE FloodLoop_expandsNumbers(out2, rest, rows, cols, popped + 1)

\* A loop that does not skip a revealed tile but goes on from it to the tiles
\* around it.
RECURSIVE FloodLoop_passesThroughRevealed(_, _, _, _, _)
FloodLoop_passesThroughRevealed(out, q, rows, cols, popped) ==
  IF q.queue = <<>> THEN [out |-> out, visited |-> q.visited, pushed |-> q.pushed,
                          popped |-> popped]
  ELSE LET p == Head(q.queue)
           t == out[p.y][p.x]
           rest == [q EXCEPT !.queue = Tail(q.queue)]
       IN IF t.isFlagged
          THEN FloodLoop_passesThroughRevealed(out, rest, rows, cols, popped + 1)
          ELSE LET out2 == [out EXCEPT ![p.y][p.x].isRevealed = TRUE]
               IN IF t.isRevealed \/ (t.adjacentMines = 0 /\ ~t.isMine)
                  THEN FloodLoop_passesThroughRevealed(
                         out2, EnqueueNeighbors(rest, rows, cols, p.x, p.y, 1),
                         rows, cols, popped + 1)
                  ELSE FloodLoop_passesThroughRevealed(out2, rest, rows, cols, popped + 1)

\* The loop without the isFlagged test of line 299: a flagged tile that is
\* dequeued is revealed like any other.
RECURSIVE FloodLoop_revealsFlagged(_, _, _, _, _)
FloodLoop_revealsFlagged(out, q, rows, cols, popped) ==
  IF q.queue = <<>> THEN [out |-> out, visited |-> q.visited, pushed |-> q.pushed,
                          popped |-> popped]
  ELSE LET p == Head(q.queue)
           t == out[p.y][p.x]
           rest == [q EXCEPT !.queue = Tail(q.queue)]
       IN IF t.isRevealed
          THEN FloodLoop_revealsFlagged(out, rest, rows, cols, popped + 1)
          ELSE LET out2 == [out EXCEPT ![p.y][p.x].isRevealed = TRUE]
               IN IF t.adjacentMines = 0 /\ ~t.isMine
                  THEN FloodLoop_revealsFlagged(
                         out2, EnqueueNeighbors(rest, rows, cols, p.x, p.y, 1),
                         rows, cols, popped + 1)
                  ELSE FloodLoop_revealsFlagged(out2, rest, rows, cols, popped + 1)

\* The while loop: out is the board being built, q the queue with its visited set,
\* popped the number of queue.shift() calls so far.
RECURSIVE FloodLoop(_, _, _, _, _)
FloodLoop(out, q, rows, cols, popped) ==
  IF q.queue = <<>> THEN [out |-> out, visited |-> q.visited, pushed |-> q.pushed,
                          popped |-> popped]
  ELSE LET p == Head(q.queue)
           t == out[p.y][p.x]
           rest == [q EXCEPT !.queue = Tail(q.queue)]
       IN IF t.isRevealed \/ t.isFlagged
          THEN FloodLoop(out, rest, rows, cols, popped + 1)
          ELSE LET out2 == [out EXCEPT ![p.y][p.x].isRevealed = TRUE]
               IN IF t.adjacentMines = 0 /\ ~t.isMine
                  THEN FloodLoop(out2, EnqueueNeighbors(rest, rows, cols, p.x, p.y, 1),
                                 rows, cols, popped + 1)
                  ELSE FloodLoop(out2, rest, rows, cols, popped + 1)

\* One call of revealFloodFill with its bookkeeping (visited set, pushes, pops).
FloodFillRun(board, startX, startY) ==
  LET rows == BoardRows(board)
      cols == BoardCols(board)
      q0 == [queue |-> <<>>, visited |-> {}, pushed |-> 0]
  IN FloodLoop(board, enqueue(q0, rows, cols, startX, startY), rows, cols, 0)

revealFloodFill(board, startX, startY) == FloodFillRun(board, startX, startY).out

\* ---------------------------------------------------------- mine placement
\* A placement that keeps the mines off the clicked tile only.
forbidden_clickedTileOnly(s, safeX, safeY) == {safeY * s.cols + safeX}

\* The indices y * cols + x of the clicked tile and its in-range neighbours.
forbidden(s, safeX, safeY) ==
  {(safeY + Offsets9[i][1]) * s.cols + (safeX + Offsets9[i][2]) :
     i \in {j \in 1..Len(Offsets9) :
              /\ safeY + Offsets9[j][1] >= 0 /\ safeY + Offsets9[j][1] < s.rows
              /\ safeX + Offsets9[j][2] >= 0 /\ safeX + Offsets9[j][2] < s.cols}}

candidates(s, safeX, safeY) ==
  {i \in 0..(s.rows * s.cols - 1) : i \notin forbidden(s, safeX, safeY)}

\* Array.prototype.slice(0, end).length on an array of length len.
SliceLen(len, end) == IF end >= 0 THEN Min(end, len) ELSE Max(0, len + end)

\* What new Set(candidates.slice(0, s.mines)) can be after the Fisher-Yates
\* shuffle with Math.random(): every permutation is possible, so every subset of
\* the candidates that has the slice's length.
MinePositionChoices(s, safeX, safeY) ==
  LET c == candidates(s, safeX, safeY)
  IN {m \in SUBSET c : Cardinality(m) = SliceLen(Cardinality(c), s.mines)}

\* A placement that builds the board anew from fresh tiles, the flags lost.
placeMinesAfterFirstClick_freshTiles(s, safeX, safeY, minePositions) ==
  LET board == [y \in DOMAIN s.board |-> [x \in DOMAIN s.board[y] |->
                  IF (y * s.cols + x) \in minePositions
                  THEN [NewTile(y, x) EXCEPT !.isMine = TRUE]
                  ELSE NewTile(y, x)]]
  IN [s EXCEPT !.board = recalculateAdjacency(board)]

placeMinesAfterFirstClick(s, safeX, safeY, minePositions) ==
  LET board == [y \in DOMAIN s.board |-> [x \in DOMAIN s.board[y] |->
                  IF (y * s.cols + x) \in minePositions
                  THEN [s.board[y][x] EXCEPT !.isMine = TRUE]
                  ELSE s.board[y][x]]]
  IN [s EXCEPT !.board = recalculateAdjacency(board)]

\* ------------------------------------------------- the service's own state
\* A world is the service's state a handler works on: the subject's value, the
\* timer, the store, and what this call has emitted and persisted so far.
World ==
  [snapshot |-> snapshot, timerSub |-> timerSub, timers |-> timers, store |-> store,
   emitted |-> <<>>, persisted |-> <<>>, threw |-> FALSE]

\* An exception leaves the handler: nothing further is done.
raise(w) == [w EXCEPT !.threw = TRUE]

\* _state$.next(s)
next(w, s) == [w EXCEPT !.snapshot = s, !.emitted = Append(@, s)]

stopTimer(w) ==
  IF w.timerSub THEN [w EXCEPT !.timerSub = FALSE, !.timers = @ - 1] ELSE w

startTimer(w) ==
  LET u == stopTimer(w) IN [u EXCEPT !.timerSub = TRUE, !.timers = @ + 1]

\* Times are kept in milliseconds: sec = elapsedMs / 1000 is stored as sec * 1000,
\* which keeps the two tests of the code as they are (!prev: absent or 0; sec < prev).
persistBestTime(w, s) ==
  LET sec == s.elapsedMs
      prev == w.store[s.difficulty]
      u == [w EXCEPT !.persisted = Append(@, s)]
  IN IF prev = NoEntry \/ prev = 0 \/ sec < prev
     THEN [u EXCEPT !.store[s.difficulty] = sec]
     ELSE u

getBestTimeSec(st, difficulty) == st[difficulty]

\* ---------------------------------------------------------------- handlers
\* A newGame that does not stop the timer.
newGameCall_timerKept(w, rows, cols, mines, difficulty) ==
  next(w, initialState(rows, cols, mines, difficulty))

newGameCall(w, rows, cols, mines, difficulty) ==
  next(stopTimer(w), initialState(rows, cols, mines, difficulty))

\* A restart that forgets the mine count.
restartCall_withoutMines(w) ==
  LET s == w.snapshot IN newGameCall(w, s.rows, s.cols, 0, s.difficulty)

restartCall(w) ==
  LET s == w.snapshot IN newGameCall(w, s.rows, s.cols, s.mines, s.difficulty)

\* A toggleFlag that does not return on a revealed tile.
toggleFlagCall_onRevealed(w, x, y) ==
  LET s == w.snapshot
  IN IF s.status = Lost \/ s.status = Won THEN w
     ELSE LET t == tileAt(s, y, x)
          IN IF t = TypeError THEN raise(w)
             ELSE IF t = NoTile THEN w
             ELSE LET flagged == ~t.isFlagged
                      board == [s.board EXCEPT ![t.y][t.x] = [t EXCEPT !.isFlagged = flagged]]
                      flagsPlaced == s.flagsPlaced + (IF flagged THEN 1 ELSE -1)
                      minesLeft == Max(0, s.mines - flagsPlaced)
                  IN next(w, [s EXCEPT !.board = board, !.flagsPlaced = flagsPlaced,
                                       !.minesLeft = minesLeft])

toggleFlagCall(w, x, y) ==
  LET s == w.snapshot
  IN IF s.status = Lost \/ s.status = Won THEN w
     ELSE LET t == tileAt(s, y, x)
          IN IF t = TypeError THEN raise(w)
             ELSE IF t = NoTile \/ t.isRevealed THEN w
             ELSE LET flagged == ~t.isFlagged
                      board == [s.board EXCEPT ![t.y][t.x] = [t EXCEPT !.isFlagged = flagged]]
                      flagsPlaced == s.flagsPlaced + (IF flagged THEN 1 ELSE -1)
                      minesLeft == Max(0, s.mines - flagsPlaced)
                  IN next(w, [s EXCEPT !.board = board, !.flagsPlaced = flagsPlaced,
                                       !.minesLeft = minesLeft])

\* A reveal that does not return on a finished game.
RevealProceeds_anyStatus(s, x, y) ==
  LET t == tileAt(s, y, x)
  IN t # TypeError /\ ~(t = NoTile \/ t.isRevealed \/ t.isFlagged)

\* A reveal that does not return on a flagged tile.
RevealProceeds_flagIgnored(s, x, y) ==
  /\ ~(s.status = Lost \/ s.status = Won)
  /\ LET t == tileAt(s, y, x)
     IN t # TypeError /\ ~(t = NoTile \/ t.isRevealed)

\* Whether reveal passes its two early returns.
RevealProceeds(s, x, y) ==
  /\ ~(s.status = Lost \/ s.status = Won)
  /\ LET t == tileAt(s, y, x)
     IN t # TypeError /\ ~(t = NoTile \/ t.isRevealed \/ t.isFlagged)

\* A win check that is skipped: the game goes on.
WinCheck_skipped(w, s) == next(w, s)

\* A win that leaves the timer running.
WinCheck_timerLeftRunning(w, s) ==
  IF countHiddenNonMines(s.board) = 0
  THEN LET won == [s EXCEPT !.status = Won]
       IN next(persistBestTime(w, won), won)
  ELSE next(w, s)

\* A win that is not handed to persistBestTime.
WinCheck_notPersisted(w, s) ==
  IF countHiddenNonMines(s.board) = 0
  THEN next(stopTimer(w), [s EXCEPT !.status = Won])
  ELSE next(w, s)

\* The win check that ends reveal and chord.
WinCheck(w, s) ==
  IF countHiddenNonMines(s.board) = 0
  THEN LET won == [s EXCEPT !.status = Won]
       IN next(persistBestTime(stopTimer(w), won), won)
  ELSE next(w, s)

\* A reveal without the firstClick test of line 110: mines are placed on every
\* reveal that proceeds.
revealCall_placesOnEveryReveal(w, x, y, minePositions, clock) ==
  LET s0 == w.snapshot
  IN IF ~(s0.status = Lost \/ s0.status = Won) /\ tileAt(s0, y, x) = TypeError
     THEN raise(w)
     ELSE IF ~RevealProceeds(s0, x, y) THEN w
     ELSE LET t == tileAt(s0, y, x)
              s1 == [placeMinesAfterFirstClick(s0, t.x, t.y, minePositions)
                       EXCEPT !.status = Playing, !.firstClick = FALSE,
                              !.startedAt = clock]
              w1 == IF s0.firstClick THEN startTimer(w) ELSE w
          IN IF t.isMine
             THEN next(stopTimer(w1),
                       [s1 EXCEPT !.board = revealAllMines(s1.board), !.status = Lost])
             ELSE WinCheck(w1, [s1 EXCEPT !.board = revealFloodFill(s1.board, t.x, t.y)])

\* A first reveal that starts the game without s.firstClick = false (line 113).
revealCall_firstClickLeftSet(w, x, y, minePositions, clock) ==
  LET s0 == w.snapshot
  IN IF ~(s0.status = Lost \/ s0.status = Won) /\ tileAt(s0, y, x) = TypeError
     THEN raise(w)
     ELSE IF ~RevealProceeds(s0, x, y) THEN w
     ELSE LET t == tileAt(s0, y, x)
              s1 == IF s0.firstClick
                    THEN [placeMinesAfterFirstClick(s0, t.x, t.y, minePositions)
                            EXCEPT !.status = Playing, !.startedAt = clock]
                    ELSE s0
              w1 == IF s0.firstClick THEN startTimer(w) ELSE w
          IN IF t.isMine
             THEN next(stopTimer(w1),
                       [s1 EXCEPT !.board = revealAllMines(s1.board), !.status = Lost])
             ELSE WinCheck(w1, [s1 EXCEPT !.board = revealFloodFill(s1.board, t.x, t.y)])

\* A reveal without the t.isMine branch of lines 118-123: a mine is opened like
\* any other tile and the game goes on.
revealCall_mineNotNoticed(w, x, y, minePositions, clock) ==
  LET s0 == w.snapshot
  IN IF ~(s0.status = Lost \/ s0.status = Won) /\ tileAt(s0, y, x) = TypeError
     THEN raise(w)
     ELSE IF ~RevealProceeds(s0, x, y) THEN w
     ELSE LET t == tileAt(s0, y, x)
              s1 == IF s0.firstClick
                    THEN [placeMinesAfterFirstClick(s0, t.x, t.y, minePositions)
                            EXCEPT !.status = Playing, !.firstClick = FALSE,
                                   !.startedAt = clock]
                    ELSE s0
              w1 == IF s0.firstClick THEN startTimer(w) ELSE w
          IN WinCheck(w1, [s1 EXCEPT !.board = revealFloodFill(s1.board, t.x, t.y)])

\* reveal(tile) at time clock, minePositions being the outcome of the shuffle.
revealCall(w, x, y, minePositions, clock) ==
  LET s0 == w.snapshot
  IN IF ~(s0.status = Lost \/ s0.status = Won) /\ tileAt(s0, y, x) = TypeError
     THEN raise(w)
     ELSE IF ~RevealProceeds(s0, x, y) THEN w
     ELSE LET t == tileAt(s0, y, x)
              s1 == IF s0.firstClick
                    THEN [placeMinesAfterFirstClick(s0, t.x, t.y, minePositions)
                            EXCEPT !.status = Playing, !.firstClick = FALSE,
                                   !.startedAt = clock]
                    ELSE s0
              w1 == IF s0.firstClick THEN startTimer(w) ELSE w
          IN IF t.isMine
             THEN next(stopTimer(w1),
                       [s1 EXCEPT !.board = revealAllMines(s1.board), !.status = Lost])
             ELSE WinCheck(w1, [s1 EXCEPT !.board = revealFloodFill(s1.board, t.x, t.y)])

\* A loop that reveals the flagged neighbours too.
RECURSIVE ChordLoop_ignoresFlags(_, _, _, _)
ChordLoop_ignoresFlags(acc, nbs, i, unused) ==
  IF i > Len(nbs) THEN acc
  ELSE LET n == nbs[i]
       IN IF ~n.isRevealed
          THEN IF n.isMine
               THEN ChordLoop_ignoresFlags([hitMine |-> TRUE,
                                            board |-> [acc.board EXCEPT ![n.y][n.x] =
                                                         [n EXCEPT !.isRevealed = TRUE]]],
                                           nbs, i + 1, unused)
               ELSE ChordLoop_ignoresFlags(
                      [acc EXCEPT !.board = revealFloodFill(acc.board, n.x, n.y)],
                      nbs, i + 1, unused)
          ELSE ChordLoop_ignoresFlags(acc, nbs, i + 1, unused)

\* A loop that stops at the first mine it hits.
RECURSIVE ChordLoop_stopsAtMine(_, _, _, _)
ChordLoop_stopsAtMine(acc, nbs, i, unused) ==
  IF i > Len(nbs) THEN acc
  ELSE LET n == nbs[i]
       IN IF ~n.isFlagged /\ ~n.isRevealed
          THEN IF n.isMine
               THEN [hitMine |-> TRUE,
                     board |-> [acc.board EXCEPT ![n.y][n.x] =
                                  [n EXCEPT !.isRevealed = TRUE]]]
               ELSE ChordLoop_stopsAtMine(
                      [acc EXCEPT !.board = revealFloodFill(acc.board, n.x, n.y)],
                      nbs, i + 1, unused)
          ELSE ChordLoop_stopsAtMine(acc, nbs, i + 1, unused)

\* The for loop of chord over the neighbours, from the i-th on; n is a tile of the
\* board the command started with.
RECURSIVE ChordLoop(_, _, _, _)
ChordLoop(acc, nbs, i, unused) ==
  IF i > Len(nbs) THEN acc
  ELSE LET n == nbs[i]
       IN IF ~n.isFlagged /\ ~n.isRevealed
          THEN IF n.isMine
               THEN ChordLoop([hitMine |-> TRUE,
                               board |-> [acc.board EXCEPT ![n.y][n.x] =
                                            [n EXCEPT !.isRevealed = TRUE]]],
                              nbs, i + 1, unused)
               ELSE ChordLoop([acc EXCEPT !.board = revealFloodFill(acc.board, n.x, n.y)],
                              nbs, i + 1, unused)
          ELSE ChordLoop(acc, nbs, i + 1, unused)

\* A chord that goes on when the flags are at least the number.
ChordProceeds_atLeastFlags(s, x, y) ==
  /\ s.status = Playing
  /\ LET t == tileAt(s, y, x)
     IN /\ t # TypeError
        /\ ~(t = NoTile \/ ~t.isRevealed \/ t.isMine \/ t.adjacentMines = 0)
        /\ CountSeq(neighbors(s.board, t.x, t.y), "isFlagged") >= t.adjacentMines

\* Whether chord passes its three early returns.
ChordProceeds(s, x, y) ==
  /\ s.status = Playing
  /\ LET t == tileAt(s, y, x)
     IN /\ t # TypeError
        /\ ~(t = NoTile \/ ~t.isRevealed \/ t.isMine \/ t.adjacentMines = 0)
        /\ CountSeq(neighbors(s.board, t.x, t.y), "isFlagged") = t.adjacentMines

chordCall(w, x, y) ==
  LET s == w.snapshot
  IN IF s.status = Playing /\ tileAt(s, y, x) = TypeError THEN raise(w)
     ELSE IF ~ChordProceeds(s, x, y) THEN w
     ELSE LET t == tileAt(s, y, x)
              r == ChordLoop([hitMine |-> FALSE, board |-> s.board],
                             neighbors(s.board, t.x, t.y), 1, 0)
          IN IF r.hitMine
             THEN next(stopTimer(w),
                       [s EXCEPT !.board = revealAllMines(r.board), !.status = Lost])
             ELSE WinCheck(w, [s EXCEPT !.board = r.board])

\* A scan that does not look at isMine.
HintTargets_minesToo(s) ==
  {y * s.cols + x : <<y, x>> \in
     {p \in Cells(s.board) : LET t == s.board[p[1]][p[2]]
                             IN ~t.isRevealed /\ ~t.isFlagged}}

\* The tiles the scan of useHint accepts, as indices y * cols + x.
HintTargets(s) ==
  {y * s.cols + x : <<y, x>> \in
     {p \in Cells(s.board) : LET t == s.board[p[1]][p[2]]
                             IN ~t.isMine /\ ~t.isRevealed /\ ~t.isFlagged}}

\* A hint that does not look at hintsLeft.
HintProceeds_budgetIgnored(s) ==
  /\ ~(s.status = Lost \/ s.status = Won)
  /\ HintTargets(s) # {}

\* Whether useHint passes its early return and its scan finds a tile.
HintProceeds(s) ==
  /\ ~(s.hintsLeft <= 0 \/ s.status = Lost \/ s.status = Won)
  /\ HintTargets(s) # {}

\* A scan that takes the last tile it accepts.
HintTile_lastOfScan(s) ==
  LET i == CHOOSE k \in HintTargets(s) : \A j \in HintTargets(s) : k >= j
  IN [x |-> i % s.cols, y |-> i \div s.cols]

\* The first tile of the row-major scan.
HintTile(s) ==
  LET i == CHOOSE k \in HintTargets(s) : \A j \in HintTargets(s) : k <= j
  IN [x |-> i % s.cols, y |-> i \div s.cols]

\* A hint that costs nothing.
useHintCall_free(w, minePositions, clock) ==
  LET s == w.snapshot
  IN IF ~HintProceeds(s) THEN w
     ELSE LET h == HintTile(s)
              w1 == revealCall(w, h.x, h.y, minePositions, clock)
          IN next(w1, w1.snapshot)

\* A hint that spends itself without the reveal of line 190.
useHintCall_withoutReveal(w, minePositions, clock) ==
  LET s == w.snapshot
  IN IF ~HintProceeds(s) THEN w
     ELSE next(w, [s EXCEPT !.hintsLeft = Max(0, s.hintsLeft - 1)])

useHintCall(w, minePositions, clock) ==
  LET s == w.snapshot
  IN IF ~HintProceeds(s) THEN w
     ELSE LET h == HintTile(s)
              w1 == revealCall(w, h.x, h.y, minePositions, clock)
              s1 == w1.snapshot
          IN next(w1, [s1 EXCEPT !.hintsLeft = Max(0, s1.hintsLeft - 1)])

\* A callback that does not look at the status.
tickCall_anyStatus(w, clock) ==
  LET s == w.snapshot
  IN IF s.startedAt = Undefined THEN w
     ELSE next(w, [s EXCEPT !.elapsedMs = clock - s.startedAt])

\* A callback that writes the reading of the clock itself, not the time since
\* startedAt.
tickCall_absoluteTime(w, clock) ==
  LET s == w.snapshot
  IN IF s.status # Playing \/ s.startedAt = Undefined THEN w
     ELSE next(w, [s EXCEPT !.elapsedMs = clock])

\* The callback of interval(200).
tickCall(w, clock) ==
  LET s == w.snapshot
  IN IF s.status # Playing \/ s.startedAt = Undefined THEN w
     ELSE next(w, [s EXCEPT !.elapsedMs = clock - s.startedAt])

\* LeaderboardComponent.reset(): localStorage.removeItem('ms-best-times')
EmptyStore == [d \in Difficulties |-> NoEntry]

\* ----------------------------------------------------------------- actions
\* The step that runs a handler and ends in world w.
Commit(w) ==
  /\ snapshot' = w.snapshot
  /\ timerSub' = w.timerSub
  /\ timers' = w.timers
  /\ store' = w.store

\* The outcomes of the shuffle a reveal of (x, y) can see; one, unused, when the
\* reveal places no mines.
ShuffleOutcomes(s, x, y) ==
  IF RevealProceeds(s, x, y) /\ s.firstClick
  THEN MinePositionChoices(s, x, y)
  ELSE {{}}

HintShuffleOutcomes(s) ==
  IF HintProceeds(s) THEN ShuffleOutcomes(s, HintTile(s).x, HintTile(s).y) ELSE {{}}

\* Date.now() is an input of reveal, useHint and the tick. The clock never runs
\* backwards: within a game a reading is at least the last one the snapshot holds.
LastReading(s) == IF s.startedAt = Undefined THEN 1 ELSE s.startedAt + s.elapsedMs
Readings(s, latest) == {c \in 1..latest : c >= LastReading(s)}

newGame(rows, cols, mines, difficulty) ==
  Commit(newGameCall(World, rows, cols, mines, difficulty))

restart == Commit(restartCall(World))

toggleFlag(x, y) == Commit(toggleFlagCall(World, x, y))

reveal(x, y, clock) ==
  \E mp \in ShuffleOutcomes(snapshot, x, y) :
    Commit(revealCall(World, x, y, mp, clock))

chord(x, y) == Commit(chordCall(World, x, y))

useHint(clock) ==
  \E mp \in HintShuffleOutcomes(snapshot) :
    Commit(useHintCall(World, mp, clock))

\* interval(200) calls back only while a subscription is live.
tick(clock) ==
  /\ timers > 0
  /\ Commit(tickCall(World, clock))

resetTimes ==
  /\ store' = EmptyStore
  /\ UNCHANGED <<snapshot, timerSub, timers>>

\* ------------------------------------------------------------------ inputs
\* Every configuration newGame takes within the bounds: the code validates
\* nothing, so empty boards, a negative mine count and more mines than the first
\* click leaves room for are among them.
Configs ==
  {c \in (0..MaxRows) \X (0..MaxCols) \X (-1..MaxMines) : c[1] * c[2] <= MaxCells}

\* The coordinates a command is called with: every tile of the board, and one
\* place beyond each of its four edges.
InRange(s, x, y) == 0 <= x /\ x < s.cols /\ 0 <= y /\ y < s.rows

Coordinates ==
  {p \in (-1..snapshot.cols) \X (-1..snapshot.rows) :
     \/ InRange(snapshot, p[1], p[2])
     \/ p \in {<<-1, 0>>, <<snapshot.cols, 0>>, <<0, -1>>, <<0, snapshot.rows>>}}

\* The service is constructed with the Beginner preset; its 9 x 9 board with 10
\* mines is scaled to the bounds.
InitialConfig == <<1, 4, 1>>

Init ==
  /\ snapshot = initialState(InitialConfig[1], InitialConfig[2], InitialConfig[3],
                             "Beginner")
  /\ timerSub = FALSE
  /\ timers = 0
  /\ store = EmptyStore

\* Spec: the board logic. Every configuration, every coordinate; the clock stands
\* still (its progress is TimeSpec's), and games are created under one difficulty.
StillClock == {1}

Next ==
  \/ \E c \in Configs : newGame(c[1], c[2], c[3], "Beginner")
  \/ restart
  \/ \E p \in Coordinates : toggleFlag(p[1], p[2])
  \/ \E p \in Coordinates, clock \in StillClock : reveal(p[1], p[2], clock)
  \/ \E p \in Coordinates : chord(p[1], p[2])
  \/ \E clock \in StillClock : useHint(clock)
  \/ \E clock \in StillClock : tick(clock)
  \/ resetTimes

Spec == Init /\ [][Next]_vars

\* TimeSpec: the timer, the elapsed time and the best times. One-row boards with
\* at most one mine, every difficulty, a clock that runs.
TimeConfigs == {c \in {1} \X (1..TimeCols) \X (0..1) : TRUE}

TimeNext ==
  \/ \E c \in TimeConfigs, d \in Difficulties : newGame(c[1], c[2], c[3], d)
  \/ restart
  \/ \E p \in Coordinates : toggleFlag(p[1], p[2])
  \/ \E p \in Coordinates, clock \in Readings(snapshot, MaxTime) :
       reveal(p[1], p[2], clock)
  \/ \E p \in Coordinates : chord(p[1], p[2])
  \/ \E clock \in Readings(snapshot, MaxTime) : useHint(clock)
  \/ \E clock \in Readings(snapshot, MaxTime) : tick(clock)
  \/ resetTimes

TimeSpec == Init /\ [][TimeNext]_vars

\* ------------------------------------------------------------------ claims
\* The tiles (y, x) of s's board at (x, y) and next to it.
ClickZone(s, x, y) ==
  {q \in Cells(s.board) : q[1] - y \in -1..1 /\ q[2] - x \in -1..1}

MineCount(board) == Cardinality({q \in Cells(board) : board[q[1]][q[2]].isMine})

\* C1: first-click safety. Whatever the board, the mine count and the outcome of
\* the shuffle, the first reveal of a game (a player's, or the one useHint makes)
\* leaves no mine on the clicked tile and on the tiles around it.
C1_FirstClickSafe ==
  /\ \A p \in Coordinates :
       (snapshot.firstClick /\ RevealProceeds(snapshot, p[1], p[2])) =>
         \A mp \in ShuffleOutcomes(snapshot, p[1], p[2]), clock \in StillClock :
           LET after == revealCall(World, p[1], p[2], mp, clock).snapshot
           IN \A q \in ClickZone(after, p[1], p[2]) : ~after.board[q[1]][q[2]].isMine
  /\ (snapshot.firstClick /\ HintProceeds(snapshot)) =>
       \A mp \in HintShuffleOutcomes(snapshot), clock \in StillClock :
         LET after == useHintCall(World, mp, clock).snapshot
             h == HintTile(snapshot)
         IN \A q \in ClickZone(after, h.x, h.y) : ~after.board[q[1]][q[2]].isMine

\* A game after its first reveal: mines are on the board, and a revealed tile has
\* none on it or around it.
C1_Witness ==
  /\ snapshot.status = Playing
  /\ ~snapshot.firstClick
  /\ MineCount(snapshot.board) >= 1
  /\ \E q \in Cells(snapshot.board) :
       /\ snapshot.board[q[1]][q[2]].isRevealed
       /\ Cardinality(ClickZone(snapshot, q[2], q[1])) >= 3
       /\ \A r \in ClickZone(snapshot, q[2], q[1]) : ~snapshot.board[r[1]][r[2]].isMine

\* C2: the win condition as an invariant. In every reachable state the status is
\* Won exactly when no tile is both hidden and not a mine.
C2_WonIffNoHiddenSafeTile ==
  (snapshot.status = Won) <=> (countHiddenNonMines(snapshot.board) = 0)

\* The same on boards that have a tile.
C2_OnBoardsWithTiles ==
  (snapshot.rows >= 1 /\ snapshot.cols >= 1) => C2_WonIffNoHiddenSafeTile

\* What every call of a command other than newGame and restart, and every tick,
\* can end in from the current state, with any coordinate, shuffle and clock:
\* P holds of each resulting world.
ClockReadings == Readings(snapshot, MaxTime)

AfterEveryCommand(P(_)) ==
  /\ \A p \in Coordinates : P(toggleFlagCall(World, p[1], p[2]))
  /\ \A p \in Coordinates, clock \in ClockReadings :
       \A mp \in ShuffleOutcomes(snapshot, p[1], p[2]) :
         P(revealCall(World, p[1], p[2], mp, clock))
  /\ \A p \in Coordinates : P(chordCall(World, p[1], p[2]))
  /\ \A clock \in ClockReadings : \A mp \in HintShuffleOutcomes(snapshot) :
       P(useHintCall(World, mp, clock))
  /\ \A clock \in ClockReadings : P(tickCall(World, clock))

\* The statuses of the current snapshot and of the snapshots a call emitted.
StatusPath(w) == [i \in 1..(Len(w.emitted) + 1) |->
                   IF i = 1 THEN snapshot.status ELSE w.emitted[i - 1].status]

PathWithin(path, allowed) ==
  \A i \in 1..(Len(path) - 1) :
    path[i + 1] = path[i] \/ <<path[i], path[i + 1]>> \in allowed

\* A step of newGame or restart: both make the fresh state of the configuration
\* the step ends in.
NewGameStep ==
  newGame(snapshot'.rows, snapshot'.cols, snapshot'.mines, snapshot'.difficulty)

\* C3, as claimed: within a game (no newGame or restart) the status changes only
\* from Ready to Playing, from Playing to Won and from Playing to Lost.
C3_OnlyThroughPlaying ==
  [][\/ NewGameStep
     \/ snapshot'.status = snapshot.status
     \/ <<snapshot.status, snapshot'.status>> \in
          {<<Ready, Playing>>, <<Playing, Won>>, <<Playing, Lost>>}]_vars

\* C3, amended: the first reveal can win the game at once, so Ready to Won is a
\* fourth change. Over the current snapshot and the snapshots any command or tick
\* emits, in order, no other change occurs, and none leads back.
C3_StatusChanges ==
  AfterEveryCommand(LAMBDA w :
    PathWithin(StatusPath(w), {<<Ready, Playing>>, <<Ready, Won>>,
                               <<Playing, Won>>, <<Playing, Lost>>}))

\* A fresh game with a mine to place whose first reveal emits Won.
C3_Witness ==
  /\ snapshot.status = Ready
  /\ snapshot.mines >= 1
  /\ \E p \in Coordinates : \E mp \in ShuffleOutcomes(snapshot, p[1], p[2]) :
       LET w == revealCall(World, p[1], p[2], mp, 1)
       IN mp # {} /\ Len(w.emitted) = 1 /\ w.emitted[1].status = Won

\* C4: Won and Lost are absorbing. Once the status is Won or Lost, reveal,
\* toggleFlag, chord, useHint and the tick change nothing (board, status, flags,
\* hints, elapsed time, timer, store) and emit no snapshot.
C4_TerminalAbsorbing ==
  (snapshot.status \in {Won, Lost}) => AfterEveryCommand(LAMBDA w : w = World)

\* A lost game in which a safe tile is still hidden and unflagged, another tile is
\* flagged and a hint is left: each command has something it would do.
C4_Witness ==
  /\ snapshot.status = Lost
  /\ snapshot.hintsLeft > 0
  /\ HintTargets(snapshot) # {}
  /\ snapshot.flagsPlaced >= 1

\* C5: zero-mine boards. On a fresh board of at least one row and one column made
\* with 0 mines, the reveal of any tile reveals every tile and sets the status Won.
C5_ZeroMinesWin ==
  (/\ snapshot.rows >= 1 /\ snapshot.cols >= 1
   /\ snapshot = initialState(snapshot.rows, snapshot.cols, 0, snapshot.difficulty)) =>
     \A p \in Coordinates : InRange(snapshot, p[1], p[2]) =>
       \A mp \in ShuffleOutcomes(snapshot, p[1], p[2]), clock \in ClockReadings :
         LET after == revealCall(World, p[1], p[2], mp, clock).snapshot
         IN /\ after.status = Won
            /\ \A q \in Cells(after.board) : after.board[q[1]][q[2]].isRevealed

\* A won game on a zero-mine board of two rows: every tile is revealed.
C5_Witness ==
  /\ snapshot.status = Won
  /\ snapshot.mines = 0
  /\ snapshot.rows >= 2 /\ snapshot.cols >= 3
  /\ \A q \in Cells(snapshot.board) : snapshot.board[q[1]][q[2]].isRevealed

C7_RevealMineLoses ==
  \A p \in Coordinates :
    (/\ snapshot.status = Playing
     /\ InRange(snapshot, p[1], p[2])
     /\ snapshot.board[p[2]][p[1]].isMine
     /\ ~snapshot.board[p[2]][p[1]].isRevealed
     /\ ~snapshot.board[p[2]][p[1]].isFlagged) =>
      \A clock \in ClockReadings :
        LET w == revealCall(World, p[1], p[2], {}, clock)
            after == w.snapshot
        IN /\ w.emitted = <<after>>
           /\ after.status = Lost
           /\ \A q \in Cells(snapshot.board) :
                LET a == after.board[q[1]][q[2]]
                    b == snapshot.board[q[1]][q[2]]
                IN /\ a.isMine = b.isMine
                   /\ a.isMine => a.isRevealed
                   /\ ~b.isMine => (a.isRevealed = b.isRevealed /\ a.isFlagged = b.isFlagged)

\* A game lost by revealing a mine (no flag was placed, so no chord was made): two
\* mines lie revealed and a safe tile is still hidden.
C7_Witness ==
  /\ snapshot.status = Lost
  /\ snapshot.flagsPlaced = 0
  /\ MineCount(snapshot.board) >= 2
  /\ \A q \in Cells(snapshot.board) :
       snapshot.board[q[1]][q[2]].isMine => snapshot.board[q[1]][q[2]].isRevealed
  /\ countHiddenNonMines(snapshot.board) >= 1

\* C8: flags block reveal. In every status, the first click included, reveal on a
\* hidden flagged tile does nothing: no mines are placed, the tile, firstClick and
\* the status stay, no timer is started and no snapshot is emitted.
C8_FlaggedRevealNoOp ==
  \A p \in Coordinates :
    (/\ InRange(snapshot, p[1], p[2])
     /\ snapshot.board[p[2]][p[1]].isFlagged
     /\ ~snapshot.board[p[2]][p[1]].isRevealed) =>
      \A clock \in ClockReadings : \A mp \in ShuffleOutcomes(snapshot, p[1], p[2]) :
        revealCall(World, p[1], p[2], mp, clock) = World

\* A fresh game with mines to place in which a tile is flagged before the first
\* click, and reveal called on it changes nothing.
C8_Witness ==
  /\ snapshot.firstClick
  /\ snapshot.mines >= 1
  /\ \E p \in Coordinates :
       /\ InRange(snapshot, p[1], p[2])
       /\ snapshot.board[p[2]][p[1]].isFlagged
       /\ MinePositionChoices(snapshot, p[1], p[2]) # {{}}
       /\ revealCall(World, p[1], p[2], {}, 1) = World

\* The coordinates up to two places beyond the board.
OutOfRange ==
  {p \in (-2..(snapshot.cols + 1)) \X (-2..(snapshot.rows + 1)) :
     ~InRange(snapshot, p[1], p[2])}

\* C9: out-of-range coordinates are tolerated. In every status reveal, toggleFlag
\* and chord called with x < 0, x >= cols, y < 0 or y >= rows raise no error, emit
\* nothing and leave snapshot, timer and store as they are.
C9_OutOfRangeNoOp ==
  \A p \in OutOfRange :
    /\ toggleFlagCall(World, p[1], p[2]) = World
    /\ \A clock \in ClockReadings : \A mp \in ShuffleOutcomes(snapshot, p[1], p[2]) :
         revealCall(World, p[1], p[2], mp, clock) = World
    /\ chordCall(World, p[1], p[2]) = World

\* A game being played on a board of two rows with hidden tiles, where commands
\* below the last row, right of the last column and at negative places do nothing.
C9_Witness ==
  /\ snapshot.status = Playing
  /\ snapshot.rows >= 2
  /\ countHiddenNonMines(snapshot.board) >= 1
  /\ \A p \in {<<0, snapshot.rows>>, <<snapshot.cols, 0>>, <<-1, 0>>, <<0, -1>>} :
       /\ p \in OutOfRange
       /\ toggleFlagCall(World, p[1], p[2]) = World
       /\ revealCall(World, p[1], p[2], {}, 1) = World
       /\ chordCall(World, p[1], p[2]) = World

\* C10: in every reachable state minesLeft = max(0, mines - flagsPlaced), so
\* minesLeft is never negative.
C10_MinesLeftClamped ==
  snapshot.minesLeft = Max(0, snapshot.mines - snapshot.flagsPlaced)

\* The same in games made with a mine count that is not negative.
C10_WithoutNegativeMines ==
  (snapshot.mines >= 0) => C10_MinesLeftClamped

\* C11: the frame of toggleFlag. While the status is Ready or Playing, toggleFlag
\* on a hidden tile of the board emits one snapshot that differs from the current
\* one only in that tile's isFlagged, in flagsPlaced (one more when the flag is
\* set, one less when it is taken off) and in minesLeft; every other tile, status,
\* firstClick, startedAt, elapsedMs, hintsLeft, the timer and the store stay. On a
\* revealed tile it changes nothing.
C11_ToggleFlagFrame ==
  \A p \in Coordinates :
    (snapshot.status \in {Ready, Playing} /\ InRange(snapshot, p[1], p[2])) =>
      LET w == toggleFlagCall(World, p[1], p[2])
          t == snapshot.board[p[2]][p[1]]
          after == w.snapshot
      IN IF t.isRevealed THEN w = World
         ELSE /\ w.emitted = <<after>>
              /\ [w EXCEPT !.snapshot = snapshot, !.emitted = <<>>] = World
              /\ after.board = [snapshot.board EXCEPT ![p[2]][p[1]].isFlagged = ~t.isFlagged]
              /\ after.flagsPlaced = snapshot.flagsPlaced + (IF t.isFlagged THEN -1 ELSE 1)
              /\ [after EXCEPT !.board = snapshot.board,
                               !.flagsPlaced = snapshot.flagsPlaced,
                               !.minesLeft = snapshot.minesLeft] = snapshot

\* A game being played with a tile revealed, a tile flagged and a tile hidden and
\* unflagged: toggleFlag has each of its three cases before it.
C11_Witness ==
  /\ snapshot.status = Playing
  /\ \E p, q, r \in Cells(snapshot.board) :
       /\ snapshot.board[p[1]][p[2]].isRevealed
       /\ toggleFlagCall(World, p[2], p[1]) = World
       /\ snapshot.board[q[1]][q[2]].isFlagged /\ ~snapshot.board[q[1]][q[2]].isRevealed
       /\ toggleFlagCall(World, q[2], q[1]).snapshot.flagsPlaced = snapshot.flagsPlaced - 1
       /\ ~snapshot.board[r[1]][r[2]].isFlagged /\ ~snapshot.board[r[1]][r[2]].isRevealed
       /\ toggleFlagCall(World, r[2], r[1]).snapshot.flagsPlaced = snapshot.flagsPlaced + 1

\* The tiles (y, x) next to the tile at (x, y), the tile itself left out.
Around(s, x, y) == ClickZone(s, x, y) \ {<<y, x>>}

FlagsAround(s, x, y) ==
  Cardinality({q \in Around(s, x, y) : s.board[q[1]][q[2]].isFlagged})

\* What chord asks of the game and of its target: the game is being played, the
\* tile is revealed, is no mine and shows a number above 0.
ChordTarget(s, x, y) ==
  /\ s.status = Playing
  /\ InRange(s, x, y)
  /\ s.board[y][x].isRevealed
  /\ ~s.board[y][x].isMine
  /\ s.board[y][x].adjacentMines > 0

\* C12: chord is a no-op (snapshot, timer and store unchanged, nothing emitted)
\* unless the status is Playing, the target is a revealed tile that is no mine
\* and has adjacentMines > 0, and the number of flagged neighbours equals
\* adjacentMines: fewer flags and more flags both abort it.
C12_ChordNoOp ==
  \A p \in Coordinates :
    ~(/\ ChordTarget(snapshot, p[1], p[2])
      /\ FlagsAround(snapshot, p[1], p[2]) = snapshot.board[p[2]][p[1]].adjacentMines) =>
        chordCall(World, p[1], p[2]) = World

\* A game being played in which a revealed number tile has more flags around it
\* than its number, and chord on it does nothing.
C12_Witness ==
  \E p \in Coordinates :
    /\ ChordTarget(snapshot, p[1], p[2])
    /\ FlagsAround(snapshot, p[1], p[2]) > snapshot.board[p[2]][p[1]].adjacentMines
    /\ \E q \in Around(snapshot, p[1], p[2]) :
         ~snapshot.board[q[1]][q[2]].isFlagged /\ ~snapshot.board[q[1]][q[2]].isRevealed
    /\ chordCall(World, p[1], p[2]) = World

\* C13: the correct chord. When the status is Playing and the flagged neighbours
\* of a revealed number tile are exactly its neighbours that are mines, chord on
\* that tile leaves every unflagged neighbour revealed, reveals no mine and does
\* not end in Lost.
C13_CorrectChord ==
  \A p \in Coordinates :
    (/\ ChordTarget(snapshot, p[1], p[2])
     /\ \A q \in Around(snapshot, p[1], p[2]) :
          snapshot.board[q[1]][q[2]].isFlagged <=> snapshot.board[q[1]][q[2]].isMine) =>
      LET w == chordCall(World, p[1], p[2])
          after == w.snapshot
      IN /\ w.emitted = <<after>>
         /\ after.status \in {Playing, Won}
         /\ \A q \in Around(snapshot, p[1], p[2]) :
              ~after.board[q[1]][q[2]].isFlagged => after.board[q[1]][q[2]].isRevealed
         /\ \A q \in Cells(snapshot.board) :
              /\ after.board[q[1]][q[2]].isMine = snapshot.board[q[1]][q[2]].isMine
              /\ after.board[q[1]][q[2]].isFlagged = snapshot.board[q[1]][q[2]].isFlagged
              /\ after.board[q[1]][q[2]].isMine => ~after.board[q[1]][q[2]].isRevealed

\* A game being played in which the mines around a revealed number tile are the
\* flagged tiles around it, a neighbour is hidden and unflagged, and chord on the
\* tile reveals that neighbour.
C13_Witness ==
  \E p \in Coordinates :
    /\ ChordTarget(snapshot, p[1], p[2])
    /\ \A q \in Around(snapshot, p[1], p[2]) :
         snapshot.board[q[1]][q[2]].isFlagged <=> snapshot.board[q[1]][q[2]].isMine
    /\ \E q \in Around(snapshot, p[1], p[2]) :
         /\ ~snapshot.board[q[1]][q[2]].isFlagged
         /\ ~snapshot.board[q[1]][q[2]].isRevealed
         /\ chordCall(World, p[1], p[2]).snapshot.board[q[1]][q[2]].isRevealed
         /\ chordCall(World, p[1], p[2]).snapshot.status = Playing

\* The neighbours of (x, y) that are hidden, unflagged mines.
MinesToHit(s, x, y) ==
  {q \in Around(s, x, y) : /\ s.board[q[1]][q[2]].isMine
                           /\ ~s.board[q[1]][q[2]].isFlagged
                           /\ ~s.board[q[1]][q[2]].isRevealed}

\* C14: the misflagged chord. When the number of flagged neighbours equals
\* adjacentMines but an unflagged hidden neighbour is a mine, chord goes through
\* all the neighbours and then ends the game: one snapshot is emitted, with status
\* Lost and every mine revealed; the unflagged neighbours that are no mines are
\* revealed as well, with the tiles around those of them that show 0; the timer is
\* stopped, and no win is checked: nothing is persisted, even when no safe tile is
\* left hidden.
C14_MisflaggedChord ==
  \A p \in Coordinates :
    (/\ ChordTarget(snapshot, p[1], p[2])
     /\ FlagsAround(snapshot, p[1], p[2]) = snapshot.board[p[2]][p[1]].adjacentMines
     /\ MinesToHit(snapshot, p[1], p[2]) # {}) =>
      LET w == chordCall(World, p[1], p[2])
          after == w.snapshot
      IN /\ w.emitted = <<after>>
         /\ after.status = Lost
         /\ ~w.timerSub /\ w.timers = 0
         /\ w.persisted = <<>> /\ w.store = store
         /\ \A q \in Cells(snapshot.board) :
              /\ after.board[q[1]][q[2]].isMine = snapshot.board[q[1]][q[2]].isMine
              /\ after.board[q[1]][q[2]].isFlagged = snapshot.board[q[1]][q[2]].isFlagged
              /\ after.board[q[1]][q[2]].isMine => after.board[q[1]][q[2]].isRevealed
         /\ \A q \in Around(snapshot, p[1], p[2]) :
              ~after.board[q[1]][q[2]].isFlagged =>
                /\ after.board[q[1]][q[2]].isRevealed
                /\ (/\ ~snapshot.board[q[1]][q[2]].isRevealed
                    /\ ~after.board[q[1]][q[2]].isMine
                    /\ after.board[q[1]][q[2]].adjacentMines = 0) =>
                     \A r \in Around(snapshot, q[2], q[1]) :
                       ~after.board[r[1]][r[2]].isFlagged => after.board[r[1]][r[2]].isRevealed

\* A game being played in which a revealed number tile has as many flags around
\* it as its number, one of them on a safe tile, a mine next to it unflagged, and
\* a safe neighbour still hidden that the chord reveals while it loses the game.
C14_Witness ==
  \E p \in Coordinates :
    /\ ChordTarget(snapshot, p[1], p[2])
    /\ FlagsAround(snapshot, p[1], p[2]) = snapshot.board[p[2]][p[1]].adjacentMines
    /\ MinesToHit(snapshot, p[1], p[2]) # {}
    /\ \E q \in Around(snapshot, p[1], p[2]) :
         /\ ~snapshot.board[q[1]][q[2]].isMine
         /\ ~snapshot.board[q[1]][q[2]].isFlagged
         /\ ~snapshot.board[q[1]][q[2]].isRevealed
         /\ chordCall(World, p[1], p[2]).snapshot.board[q[1]][q[2]].isRevealed
         /\ chordCall(World, p[1], p[2]).snapshot.status = Lost

\* The tiles (y, x) a hint may reveal: no mine, not revealed, not flagged.
Eligible(s) ==
  {q \in Cells(s.board) : /\ ~s.board[q[1]][q[2]].isMine
                          /\ ~s.board[q[1]][q[2]].isRevealed
                          /\ ~s.board[q[1]][q[2]].isFlagged}

\* q comes before r, or is r, in row-major order.
RowMajorLeq(q, r) == q[1] < r[1] \/ (q[1] = r[1] /\ q[2] <= r[2])

\* C15: the successful hint. When hintsLeft > 0, the status is Ready or Playing
\* and an eligible tile exists, useHint ends in the snapshot that reveal on the
\* first eligible tile in row-major order ends in (mines placed by the same shuffle
\* when it is the first click, same status, same timer and store), with hintsLeft
\* one less.
C15_HintRevealsFirstEligible ==
  (/\ snapshot.hintsLeft > 0
   /\ snapshot.status \in {Ready, Playing}
   /\ Eligible(snapshot) # {}) =>
    \A h \in Eligible(snapshot) :
      (\A r \in Eligible(snapshot) : RowMajorLeq(h, r)) =>
        \A clock \in ClockReadings : \A mp \in ShuffleOutcomes(snapshot, h[2], h[1]) :
          LET byHint == useHintCall(World, mp, clock)
              byReveal == revealCall(World, h[2], h[1], mp, clock)
          IN /\ byReveal.snapshot.board[h[1]][h[2]].isRevealed
             /\ byHint.snapshot =
                  [byReveal.snapshot EXCEPT !.hintsLeft = snapshot.hintsLeft - 1]
             /\ byHint.timerSub = byReveal.timerSub
             /\ byHint.timers = byReveal.timers
             /\ byHint.store = byReveal.store
             /\ ~byHint.threw

\* A game being played with a hint left in which a hidden mine comes before the
\* first eligible tile, and useHint reveals that tile and keeps the game going.
C15_Witness ==
  /\ snapshot.status = Playing
  /\ snapshot.hintsLeft > 0
  /\ \E h \in Eligible(snapshot) :
       /\ \A r \in Eligible(snapshot) : RowMajorLeq(h, r)
       /\ \E m \in Cells(snapshot.board) :
            /\ RowMajorLeq(m, h)
            /\ snapshot.board[m[1]][m[2]].isMine
            /\ ~snapshot.board[m[1]][m[2]].isRevealed
       /\ Cardinality(Eligible(snapshot)) >= 2
       /\ useHintCall(World, {}, 1).snapshot.board[h[1]][h[2]].isRevealed
       /\ useHintCall(World, {}, 1).snapshot.hintsLeft = snapshot.hintsLeft - 1

\* The tiles (y, x) of a board that are mines and revealed.
RevealedMines(board) ==
  {q \in Cells(board) : board[q[1]][q[2]].isMine /\ board[q[1]][q[2]].isRevealed}

\* C16: a hint is a safe reveal. In every reachable state, whatever the shuffle
\* and the clock, no snapshot that useHint emits has a mine revealed that was not
\* revealed before, and none has status Lost.
C16_HintIsSafe ==
  \A clock \in ClockReadings : \A mp \in HintShuffleOutcomes(snapshot) :
    LET w == useHintCall(World, mp, clock)
    IN /\ ~w.threw
       /\ w.snapshot.status = Lost => w = World
       /\ \A i \in 1..Len(w.emitted) :
            /\ w.emitted[i].status # Lost
            /\ RevealedMines(w.emitted[i].board) \subseteq RevealedMines(snapshot.board)

\* A game being played in which the first tile that is neither revealed nor
\* flagged is a mine: the hint passes over it, reveals a safe tile and the game
\* goes on with every mine hidden.
C16_Witness ==
  /\ snapshot.status = Playing
  /\ HintProceeds(snapshot)
  /\ \E m \in Cells(snapshot.board) :
       /\ snapshot.board[m[1]][m[2]].isMine
       /\ ~snapshot.board[m[1]][m[2]].isRevealed
       /\ ~snapshot.board[m[1]][m[2]].isFlagged
       /\ \A r \in Cells(snapshot.board) :
            (~snapshot.board[r[1]][r[2]].isRevealed /\ ~snapshot.board[r[1]][r[2]].isFlagged)
              => RowMajorLeq(m, r)
  /\ LET w == useHintCall(World, {}, 1)
     IN /\ Len(w.emitted) = 2
        /\ w.snapshot.status = Playing
        /\ RevealedMines(w.snapshot.board) = {}

\* C17: the hint that does nothing. When hintsLeft is 0, when the status is Won
\* or Lost, or when no tile is eligible (every hidden safe tile is flagged, or the
\* board has none), useHint leaves the snapshot, hintsLeft included, the timer and
\* the store as they are and emits nothing.
C17_HintNoOp ==
  (\/ snapshot.hintsLeft = 0
   \/ snapshot.status \in {Won, Lost}
   \/ Eligible(snapshot) = {}) =>
    \A clock \in ClockReadings : \A mp \in HintShuffleOutcomes(snapshot) :
      useHintCall(World, mp, clock) = World

\* A game being played with no hint left and a safe tile still hidden and
\* unflagged: useHint has a tile to reveal and does not.
C17_Witness ==
  /\ snapshot.status = Playing
  /\ snapshot.hintsLeft = 0
  /\ Eligible(snapshot) # {}
  /\ useHintCall(World, {}, 1) = World

\* C18: the hint budget. hintsLeft is 3 after newGame and after restart and stays
\* in 0..3; within a game no emitted snapshot has more hints left than the one
\* before it; and a useHint call that reveals a tile finds hintsLeft above 0 and
\* leaves it one less, so that at most 3 calls of a game reveal a tile.
C18_HintBudget ==
  /\ snapshot.hintsLeft \in 0..InitialHints
  /\ \A c \in Configs :
       newGameCall(World, c[1], c[2], c[3], snapshot.difficulty).snapshot.hintsLeft = 3
  /\ restartCall(World).snapshot.hintsLeft = 3
  /\ AfterEveryCommand(LAMBDA w :
       \A i \in 1..Len(w.emitted) :
         w.emitted[i].hintsLeft <=
           (IF i = 1 THEN snapshot.hintsLeft ELSE w.emitted[i - 1].hintsLeft))
  /\ \A clock \in ClockReadings : \A mp \in HintShuffleOutcomes(snapshot) :
       LET w == useHintCall(World, mp, clock)
       IN (w.snapshot.board # snapshot.board) =>
            /\ snapshot.hintsLeft >= 1
            /\ w.snapshot.hintsLeft = snapshot.hintsLeft - 1

\* A game being played with its last hint left: useHint reveals a tile and takes
\* the budget to 0, and the next useHint changes nothing.
C18_Witness ==
  /\ snapshot.status = Playing
  /\ snapshot.hintsLeft = 1
  /\ LET w == useHintCall(World, {}, 1)
     IN /\ w.snapshot.board # snapshot.board
        /\ w.snapshot.hintsLeft = 0
        /\ w.snapshot.status = Playing
        /\ Eligible(w.snapshot) # {}
        /\ useHintCall([w EXCEPT !.emitted = <<>>], {}, 1).snapshot = w.snapshot

\* C19: the tick is scheduled exactly while the game is being played. In every
\* state a command leaves behind, a subscription of interval(200) is live if and
\* only if the status is Playing, at most one is live, and it is the one the field
\* timerSub holds; the first reveal starts it, and newGame, restart and every
\* command that ends in Won or Lost leave none.
C19_TimerIffPlaying ==
  /\ timers \in {0, 1}
  /\ timerSub <=> (timers = 1)
  /\ (timers = 1) <=> (snapshot.status = Playing)
  /\ \A c \in Configs :
       newGameCall(World, c[1], c[2], c[3], snapshot.difficulty).timers = 0
  /\ restartCall(World).timers = 0
  /\ AfterEveryCommand(LAMBDA w :
       /\ w.timers = (IF w.snapshot.status = Playing THEN 1 ELSE 0)
       /\ w.timerSub <=> (w.timers = 1))

\* A game being played, its one tick scheduled, in which a reveal can lose, a
\* reveal can win and newGame can start afresh: each leaves no tick behind.
C19_Witness ==
  /\ snapshot.status = Playing
  /\ timers = 1 /\ timerSub
  /\ \E p, q \in Coordinates :
       /\ revealCall(World, p[1], p[2], {}, 1).snapshot.status = Lost
       /\ revealCall(World, p[1], p[2], {}, 1).timers = 0
       /\ revealCall(World, q[1], q[2], {}, 1).snapshot.status = Won
       /\ revealCall(World, q[1], q[2], {}, 1).timers = 0
  /\ restartCall(World).snapshot.status = Ready
  /\ restartCall(World).timers = 0

\* C20: no stale tick. Whatever ticks and commands came before, newGame and
\* restart leave no subscription of interval(200) live, so that no tick of the
\* game before can act on the fresh snapshot; and while a game is Ready no tick is
\* scheduled, the callback itself would emit nothing, and the snapshot keeps
\* elapsedMs = 0 and no startedAt.
C20_NoStaleTick ==
  /\ \A c \in TimeConfigs, d \in Difficulties :
       LET w == newGameCall(World, c[1], c[2], c[3], d)
       IN /\ w.timers = 0 /\ ~w.timerSub
          /\ w.snapshot = initialState(c[1], c[2], c[3], d)
          /\ w.snapshot.elapsedMs = 0
          /\ \A clock \in 1..MaxTime :
               tickCall([w EXCEPT !.emitted = <<>>], clock).emitted = <<>>
  /\ LET w == restartCall(World)
     IN /\ w.timers = 0 /\ ~w.timerSub
        /\ w.snapshot = initialState(snapshot.rows, snapshot.cols, snapshot.mines,
                                     snapshot.difficulty)
  /\ (snapshot.status = Ready) =>
       /\ timers = 0 /\ ~timerSub
       /\ snapshot.elapsedMs = 0
       /\ snapshot.startedAt = Undefined
       /\ \A clock \in 1..MaxTime : tickCall(World, clock) = World

\* A game being played whose tick has fired (elapsedMs > 0) and is still
\* scheduled: restart leaves the fresh state and no tick.
C20_Witness ==
  /\ snapshot.status = Playing
  /\ snapshot.elapsedMs > 0
  /\ timers = 1
  /\ \E clock \in ClockReadings : tickCall(World, clock).emitted # <<>>
  /\ restartCall(World).timers = 0
  /\ restartCall(World).snapshot.elapsedMs = 0

\* The configurations the specification calls valid: at least one row and one
\* column, a mine count that is not negative and that leaves, wherever the first
\* click lands, enough tiles outside the click's exclusion set.
ValidConfig(rows, cols, mines) ==
  /\ rows >= 1 /\ cols >= 1 /\ mines >= 0
  /\ \A x \in 0..(cols - 1), y \in 0..(rows - 1) :
       mines <= Cardinality(candidates([rows |-> rows, cols |-> cols], x, y))

ValidConfigs == {c \in Configs : ValidConfig(c[1], c[2], c[3])}

\* C21: newGame makes a fresh game. From any state, newGame with a valid
\* configuration emits one snapshot: a board of rows x cols tiles, each at its
\* place, hidden, unflagged, no mine, adjacentMines 0; status Ready, firstClick
\* true, elapsedMs 0, startedAt unset, hintsLeft 3, flagsPlaced 0, minesLeft =
\* mines; the timer is stopped and the store is left alone.
C21_NewGameFresh ==
  \A c \in ValidConfigs : \A d \in Difficulties :
    LET w == newGameCall(World, c[1], c[2], c[3], d)
        s == w.snapshot
    IN /\ w.emitted = <<s>>
       /\ ~w.timerSub /\ w.timers = 0
       /\ w.store = store /\ w.persisted = <<>> /\ ~w.threw
       /\ DOMAIN s.board = 0..(c[1] - 1)
       /\ \A y \in 0..(c[1] - 1) :
            /\ DOMAIN s.board[y] = 0..(c[2] - 1)
            /\ \A x \in 0..(c[2] - 1) :
                 s.board[y][x] = [x |-> x, y |-> y, isMine |-> FALSE,
                                  isRevealed |-> FALSE, isFlagged |-> FALSE,
                                  adjacentMines |-> 0]
       /\ s.rows = c[1] /\ s.cols = c[2] /\ s.mines = c[3] /\ s.difficulty = d
       /\ s.status = Ready /\ s.firstClick
       /\ s.elapsedMs = 0 /\ s.startedAt = Undefined
       /\ s.hintsLeft = 3 /\ s.flagsPlaced = 0 /\ s.minesLeft = c[3]

\* A lost game with a flag placed, a hint used and a tile revealed, from which
\* newGame makes a fresh game of another size.
C21_Witness ==
  /\ snapshot.status = Lost
  /\ snapshot.flagsPlaced >= 1
  /\ snapshot.hintsLeft < 3
  /\ snapshot.rows = 2
  /\ <<1, 4, 1>> \in ValidConfigs
  /\ newGameCall(World, 1, 4, 1, "Custom").snapshot = initialState(1, 4, 1, "Custom")

\* C22: restart is newGame with the current configuration. Whatever the status,
\* restart ends in the world newGame(rows, cols, mines, difficulty) of the current
\* snapshot ends in: these four values are kept, and every other field, the board
\* and the timer are reset as newGame resets them.
C22_RestartIsNewGame ==
  LET w == restartCall(World)
      s == w.snapshot
  IN /\ w = newGameCall(World, snapshot.rows, snapshot.cols, snapshot.mines,
                        snapshot.difficulty)
     /\ s.rows = snapshot.rows /\ s.cols = snapshot.cols
     /\ s.mines = snapshot.mines /\ s.difficulty = snapshot.difficulty
     /\ s.status = Ready /\ s.firstClick /\ s.startedAt = Undefined
     /\ s.elapsedMs = 0 /\ s.hintsLeft = 3 /\ s.flagsPlaced = 0
     /\ s.minesLeft = snapshot.mines
     /\ \A q \in Cells(s.board) :
          LET t == s.board[q[1]][q[2]]
          IN ~t.isMine /\ ~t.isRevealed /\ ~t.isFlagged /\ t.adjacentMines = 0
     /\ Cells(s.board) = Cells(snapshot.board)
     /\ w.emitted = <<s>> /\ w.timers = 0 /\ ~w.timerSub /\ w.store = store

\* A won game on a board of two rows with two mines, a tile flagged and a hint
\* used: restart has every field to reset and a configuration to keep that is not
\* the one the service starts with.
C22_Witness ==
  /\ snapshot.status = Won
  /\ snapshot.rows = 2 /\ snapshot.mines = 2
  /\ snapshot.flagsPlaced >= 1
  /\ snapshot.hintsLeft < 3
  /\ restartCall(World).snapshot = initialState(2, snapshot.cols, 2, snapshot.difficulty)

\* C23: configuration errors fail fast. newGame with rows <= 0, cols <= 0,
\* mines < 0 or more mines than a first click leaves room for raises a
\* configuration error, emits nothing and leaves the current snapshot, the timer
\* and the store as they are.
C23_InvalidConfigRejected ==
  \A c \in Configs \ ValidConfigs :
    LET w == newGameCall(World, c[1], c[2], c[3], snapshot.difficulty)
    IN /\ w.threw
       /\ w.emitted = <<>>
       /\ w.snapshot = snapshot
       /\ w.timers = timers /\ w.timerSub = timerSub /\ w.store = store

\* C24: the mine count. Once the first reveal of a game has been made, the number
\* of tiles with isMine = true equals the snapshot's mines field.
C24_ExactMineCount ==
  ~snapshot.firstClick => MineCount(snapshot.board) = snapshot.mines

\* The same in games made with a valid configuration.
C24_OnValidConfigs ==
  ValidConfig(snapshot.rows, snapshot.cols, snapshot.mines) => C24_ExactMineCount

\* C25: adjacency. In every reachable state each tile that is no mine has
\* adjacentMines equal to the number of mines among the tiles next to it on the
\* board, and each mine has adjacentMines 0.
C25_AdjacencyCorrect ==
  \A q \in Cells(snapshot.board) :
    LET t == snapshot.board[q[1]][q[2]]
    IN t.adjacentMines =
         (IF t.isMine THEN 0
          ELSE Cardinality({r \in Around(snapshot, q[2], q[1]) :
                              snapshot.board[r[1]][r[2]].isMine}))

\* A game after mine placement in which a safe tile has two mines next to it, one
\* of them diagonally, and shows 2.
C25_Witness ==
  /\ ~snapshot.firstClick
  /\ \E q \in Cells(snapshot.board) :
       /\ ~snapshot.board[q[1]][q[2]].isMine
       /\ snapshot.board[q[1]][q[2]].adjacentMines = 2
       /\ \E r \in Around(snapshot, q[2], q[1]) :
            /\ snapshot.board[r[1]][r[2]].isMine
            /\ snapshot.board[r[1]][r[2]].adjacentMines = 0
            /\ r[1] # q[1] /\ r[2] # q[2]

\* Two different tiles (y, x) that touch, diagonally included.
Adjacent(q, r) ==
  q # r /\ q[1] - r[1] \in -1..1 /\ q[2] - r[2] \in -1..1

\* The tiles reached from the tiles of set by steps between adjacent tiles that
\* stay within passable.
RECURSIVE Grow(_, _)
Grow(set, passable) ==
  LET more == {r \in passable \ set : \E q \in set : Adjacent(q, r)}
  IN IF more = {} THEN set ELSE Grow(set \cup more, passable)

\* The tiles of a board that are no mines and show 0.
ZeroTiles(board) ==
  {q \in Cells(board) : ~board[q[1]][q[2]].isMine /\ board[q[1]][q[2]].adjacentMines = 0}

\* The tiles of a board that are hidden and unflagged.
OpenTiles(board) ==
  {q \in Cells(board) : ~board[q[1]][q[2]].isRevealed /\ ~board[q[1]][q[2]].isFlagged}

\* A board with the tiles of set revealed and nothing else changed.
WithRevealed(board, set) ==
  [y \in DOMAIN board |-> [x \in DOMAIN board[y] |->
     IF <<y, x>> \in set THEN [board[y][x] EXCEPT !.isRevealed = TRUE] ELSE board[y][x]]]

\* The board a reveal of (x, y) floods: the current one, or on the first click
\* the one with the mines of the shuffle placed.
BoardToFlood(x, y, mp) ==
  IF snapshot.firstClick
  THEN placeMinesAfterFirstClick(snapshot, x, y, mp).board
  ELSE snapshot.board

NewlyRevealed(a, b) ==
  {q \in Cells(a) : b[q[1]][q[2]].isRevealed /\ ~a[q[1]][q[2]].isRevealed}

\* C27: flood fill is idempotent. On every reachable board and from every start on
\* it, revealFloodFill applied to its own result, from the same start or from any
\* tile the first application revealed, returns that result.
C27_FloodFillIdempotent ==
  \A s \in Cells(snapshot.board) :
    LET once == revealFloodFill(snapshot.board, s[2], s[1])
    IN /\ revealFloodFill(once, s[2], s[1]) = once
       /\ \A q \in NewlyRevealed(snapshot.board, once) :
            revealFloodFill(once, q[2], q[1]) = once

\* A game being played in which the flood fill from a hidden zero tile reveals
\* three tiles or more, a numbered one among them, and a second application from
\* the numbered tile changes nothing.
C27_Witness ==
  /\ snapshot.status = Playing
  /\ \E s \in ZeroTiles(snapshot.board) \cap OpenTiles(snapshot.board) :
       LET once == revealFloodFill(snapshot.board, s[2], s[1])
       IN /\ Cardinality(NewlyRevealed(snapshot.board, once)) >= 3
          /\ \E q \in NewlyRevealed(snapshot.board, once) :
               /\ once[q[1]][q[2]].adjacentMines > 0
               /\ revealFloodFill(once, q[2], q[1]) = once
               /\ \E h \in OpenTiles(once) : Adjacent(q, h)

\* The least time among a stored time, if there is one, and the times of new wins.
BestOf(prev, times) ==
  LET all == times \cup (IF prev = NoEntry THEN {} ELSE {prev})
  IN IF all = {} THEN NoEntry ELSE CHOOSE m \in all : \A n \in all : m <= n

\* The elapsed times of the wins at difficulty d that a call surfaced.
WinTimes(w, d) ==
  {w.persisted[i].elapsedMs : i \in {j \in 1..Len(w.persisted) : w.persisted[j].difficulty = d}}

\* C28: the store keeps the minimum. The store is empty after a reset, and every
\* command leaves, for each difficulty, the least of the time stored before and
\* the elapsed times of the wins it brought: the stored time is the smallest
\* elapsed time of all wins at that difficulty since the last reset, and a slower
\* win never replaces a faster stored time.
C28_StoreKeepsMinimum ==
  AfterEveryCommand(LAMBDA w :
    \A d \in Difficulties :
      getBestTimeSec(w.store, d) = BestOf(getBestTimeSec(store, d), WinTimes(w, d)))

\* The same while no stored time is 0.
C28_WithoutStoredZero ==
  (\A d \in Difficulties : store[d] # 0) => C28_StoreKeepsMinimum

\* A call that is atomic: it emitted one snapshot, the one it leaves behind, or it
\* emitted nothing and left the snapshot it found.
Atomic(w) ==
  \/ w.emitted = <<>> /\ w.snapshot = snapshot
  \/ w.emitted = <<w.snapshot>>

\* C29: command atomicity. Every call of newGame, restart, reveal, toggleFlag,
\* chord and useHint either emits exactly one snapshot, which carries its whole
\* effect, or emits nothing and leaves the snapshot in place: no snapshot with a
\* part of the effect (for useHint: the tile revealed, hintsLeft not yet lowered)
\* reaches the subscribers.
C29_CommandsAtomic ==
  /\ \A c \in Configs : Atomic(newGameCall(World, c[1], c[2], c[3], snapshot.difficulty))
  /\ Atomic(restartCall(World))
  /\ \A p \in Coordinates : Atomic(toggleFlagCall(World, p[1], p[2]))
  /\ \A p \in Coordinates, clock \in ClockReadings :
       \A mp \in ShuffleOutcomes(snapshot, p[1], p[2]) :
         Atomic(revealCall(World, p[1], p[2], mp, clock))
  /\ \A p \in Coordinates : Atomic(chordCall(World, p[1], p[2]))
  /\ \A clock \in ClockReadings : \A mp \in HintShuffleOutcomes(snapshot) :
       Atomic(useHintCall(World, mp, clock))

\* The same of the commands other than useHint.
C29_ExceptUseHint ==
  /\ \A c \in Configs : Atomic(newGameCall(World, c[1], c[2], c[3], snapshot.difficulty))
  /\ Atomic(restartCall(World))
  /\ \A p \in Coordinates : Atomic(toggleFlagCall(World, p[1], p[2]))
  /\ \A p \in Coordinates, clock \in ClockReadings :
       \A mp \in ShuffleOutcomes(snapshot, p[1], p[2]) :
         Atomic(revealCall(World, p[1], p[2], mp, clock))
  /\ \A p \in Coordinates : Atomic(chordCall(World, p[1], p[2]))

\* What useHint emits when it reveals a tile: first the snapshot of the reveal,
\* with hintsLeft as it was, then the same snapshot with hintsLeft lowered.
C29_HintEmitsTwice ==
  \A clock \in ClockReadings : \A mp \in HintShuffleOutcomes(snapshot) :
    LET w == useHintCall(World, mp, clock)
    IN HintProceeds(snapshot) =>
         /\ Len(w.emitted) = 2
         /\ w.emitted[1].hintsLeft = snapshot.hintsLeft
         /\ w.emitted[1].board # snapshot.board
         /\ w.emitted[2] = [w.emitted[1] EXCEPT !.hintsLeft = snapshot.hintsLeft - 1]

\* The tiles of a snapshot that are both flagged and revealed.
FlaggedAndRevealed(s) ==
  {p \in Cells(s.board) :
     s.board[p[1]][p[2]].isFlagged /\ s.board[p[1]][p[2]].isRevealed}

\* A snapshot in which flags have blocked every reveal: a tile that is flagged and
\* revealed is a mine of a lost game.
FlagsBlockReveal(s) ==
  \A p \in FlaggedAndRevealed(s) : s.status = Lost /\ s.board[p[1]][p[2]].isMine

\* C30: no player action reveals a flagged tile. In every reachable state, and in
\* every snapshot that a reveal, chord or useHint emits from it, no tile is both
\* flagged and revealed while the status is Ready, Playing or Won, and the tiles
\* that are flagged and revealed in a lost game are mines; a tile that was flagged
\* and hidden before the command and is revealed after it is a mine of a game the
\* command has lost.
C30_FlagsBlockReveal ==
  /\ FlagsBlockReveal(snapshot)
  /\ AfterEveryCommand(LAMBDA w :
       \A i \in 1..Len(w.emitted) :
         LET e == w.emitted[i]
         IN /\ FlagsBlockReveal(e)
            /\ \A p \in Cells(snapshot.board) :
                 (/\ snapshot.board[p[1]][p[2]].isFlagged
                  /\ ~snapshot.board[p[1]][p[2]].isRevealed
                  /\ e.board[p[1]][p[2]].isRevealed)
                 => e.status = Lost /\ e.board[p[1]][p[2]].isMine)

\* A lost game in which a flagged mine has been exposed while a flagged safe tile
\* has stayed hidden.
C30_Witness ==
  /\ snapshot.status = Lost
  /\ \E p \in FlaggedAndRevealed(snapshot) : snapshot.board[p[1]][p[2]].isMine
  /\ \E p \in Cells(snapshot.board) :
       LET t == snapshot.board[p[1]][p[2]]
       IN t.isFlagged /\ ~t.isRevealed /\ ~t.isMine

\* A call made at time now that has won the game with the elapsed time of that
\* moment: the Won snapshot, which is the one handed to persistBestTime, carries
\* elapsedMs = now - startedAt.
WonWithElapsed(w, now) ==
  (snapshot.status # Won /\ w.snapshot.status = Won) =>
    /\ w.snapshot.elapsedMs = now - w.snapshot.startedAt
    /\ Len(w.persisted) = 1
    /\ w.persisted[1].elapsedMs = w.snapshot.elapsedMs

\* A call that has won the game with the elapsed time the snapshot held before it:
\* the value of the last tick, or 0 when no tick has fired in this game.
WonWithLastTick(w) ==
  (snapshot.status # Won /\ w.snapshot.status = Won) =>
    /\ w.snapshot.elapsedMs = snapshot.elapsedMs
    /\ Len(w.persisted) = 1
    /\ w.persisted[1].elapsedMs = w.snapshot.elapsedMs

\* C31: final elapsed time. When a reveal, chord or hint made at time now moves the
\* game to Won, the elapsedMs of the Won snapshot, which is the value handed to
\* best-time persistence, equals now - startedAt.
C31_FinalElapsedTime ==
  \A now \in ClockReadings :
    /\ \A p \in Coordinates : \A mp \in ShuffleOutcomes(snapshot, p[1], p[2]) :
         WonWithElapsed(revealCall(World, p[1], p[2], mp, now), now)
    /\ \A p \in Coordinates : WonWithElapsed(chordCall(World, p[1], p[2]), now)
    /\ \A mp \in HintShuffleOutcomes(snapshot) :
         WonWithElapsed(useHintCall(World, mp, now), now)

\* What the code surfaces instead: the elapsedMs of the last tick before the
\* winning command.
C31_ElapsedOfLastTick ==
  \A now \in ClockReadings :
    /\ \A p \in Coordinates : \A mp \in ShuffleOutcomes(snapshot, p[1], p[2]) :
         WonWithLastTick(revealCall(World, p[1], p[2], mp, now))
    /\ \A p \in Coordinates : WonWithLastTick(chordCall(World, p[1], p[2]))
    /\ \A mp \in HintShuffleOutcomes(snapshot) :
         WonWithLastTick(useHintCall(World, mp, now))

\* C32: the frame of the tick. In every reachable state and at every reading of
\* the clock, the callback of the interval emits a snapshot only when the status
\* is Playing and startedAt is set; that snapshot is the current one with
\* elapsedMs = now - startedAt and nothing else changed (board, status,
\* firstClick, flagsPlaced, minesLeft and hintsLeft are the ones the last command
\* left), and the timer and the store are untouched. Otherwise the callback does
\* nothing at all.
C32_TickFrame ==
  \A now \in ClockReadings :
    LET w == tickCall(World, now)
    IN IF snapshot.status = Playing /\ snapshot.startedAt # Undefined
       THEN /\ w.emitted = <<w.snapshot>>
            /\ w.snapshot = [snapshot EXCEPT !.elapsedMs = now - snapshot.startedAt]
            /\ w.snapshot.board = snapshot.board
            /\ w.snapshot.status = snapshot.status
            /\ w.snapshot.firstClick = snapshot.firstClick
            /\ w.snapshot.flagsPlaced = snapshot.flagsPlaced
            /\ w.snapshot.minesLeft = snapshot.minesLeft
            /\ w.snapshot.hintsLeft = snapshot.hintsLeft
            /\ w.timers = timers /\ w.timerSub = timerSub /\ w.store = store
            /\ w.persisted = <<>> /\ ~w.threw
       ELSE w = World

\* A game being played in which a tick has fired (elapsedMs > 0) after a flag was
\* placed and a hint was spent, and in which the tick is still scheduled.
C32_Witness ==
  /\ snapshot.status = Playing
  /\ snapshot.elapsedMs > 0
  /\ snapshot.flagsPlaced > 0
  /\ snapshot.hintsLeft < InitialHints
  /\ timers > 0

\* Where the mines of a board are and what its numbers say.
Layout(board) ==
  [y \in DOMAIN board |-> [x \in DOMAIN board[y] |->
     <<board[y][x].isMine, board[y][x].adjacentMines>>]]

\* A call that has left the mines and the numbers where they were, in every
\* snapshot it emitted.
SameLayout(w) ==
  /\ Layout(w.snapshot.board) = Layout(snapshot.board)
  /\ \A i \in 1..Len(w.emitted) : Layout(w.emitted[i].board) = Layout(snapshot.board)

\* What a shuffle could give for a click at (x, y) if mines were placed again.
AnyShuffle(x, y) ==
  IF InRange(snapshot, x, y) THEN MinePositionChoices(snapshot, x, y) \cup {{}}
  ELSE {{}}

\* C33: mines are placed once per game. Once the first reveal has been made
\* (firstClick = false), no reveal, chord, toggleFlag, useHint or tick changes
\* isMine or adjacentMines of any tile, whatever a shuffle would give at that
\* moment; only newGame and restart replace the board.
C33_MinesPlacedOnce ==
  ~snapshot.firstClick =>
    /\ \A p \in Coordinates : SameLayout(toggleFlagCall(World, p[1], p[2]))
    /\ \A p \in Coordinates, clock \in ClockReadings : \A mp \in AnyShuffle(p[1], p[2]) :
         SameLayout(revealCall(World, p[1], p[2], mp, clock))
    /\ \A p \in Coordinates : SameLayout(chordCall(World, p[1], p[2]))
    /\ \A clock \in ClockReadings :
         \A mp \in (IF HintProceeds(snapshot)
                    THEN AnyShuffle(HintTile(snapshot).x, HintTile(snapshot).y)
                    ELSE {{}}) :
           SameLayout(useHintCall(World, mp, clock))
    /\ \A clock \in ClockReadings : SameLayout(tickCall(World, clock))

\* A game being played after its first reveal, with a mine placed and a number on
\* display, in which a safe tile is still to be revealed.
C33_Witness ==
  /\ snapshot.status = Playing /\ ~snapshot.firstClick
  /\ MineCount(snapshot.board) > 0
  /\ \E p \in Cells(snapshot.board) :
       LET t == snapshot.board[p[1]][p[2]]
       IN ~t.isMine /\ ~t.isRevealed /\ ~t.isFlagged
  /\ \E p \in Cells(snapshot.board) :
       LET t == snapshot.board[p[1]][p[2]]
       IN t.isRevealed /\ t.adjacentMines > 0

\* The starts of a flood fill on a board: its tiles and, on a board that has a
\* row, the coordinates next to its corners.
FloodStarts(board) ==
  {<<p[2], p[1]>> : p \in Cells(board)}
    \cup (IF DOMAIN board = {} THEN {}
          ELSE {<<-1, -1>>, <<BoardCols(board), BoardRows(board)>>})

\* A run of the flood fill that came to its end with every coordinate pushed at
\* most once: the pushes are as many as the coordinates visited, all of them on
\* the board, the queue was drained (as many pops as pushes), and the pops, which
\* are the tiles processed, are at most limit.
RunBounded(run, board, limit) ==
  /\ run.pushed = Cardinality(run.visited)
  /\ run.visited \subseteq Cells(board)
  /\ run.popped = run.pushed
  /\ run.popped <= limit

\* C34: flood fill terminates and is linear. On every reachable board and from
\* every start, revealFloodFill returns, having enqueued each coordinate at most
\* once, so that it dequeues and processes at most rows * cols tiles.
C34_FloodFillBounded ==
  \A s \in FloodStarts(snapshot.board) :
    RunBounded(FloodFillRun(snapshot.board, s[1], s[2]), snapshot.board,
               BoardRows(snapshot.board) * BoardCols(snapshot.board))

\* A board of four tiles or more on which a flood fill from a hidden tile enqueues
\* every coordinate of the board, some of them asked for by several neighbours,
\* and meets a flagged tile on its way.
C34_Witness ==
  /\ Cardinality(Cells(snapshot.board)) >= 4
  /\ BoardRows(snapshot.board) >= 2
  /\ \E s \in Cells(snapshot.board) :
       LET run == FloodFillRun(snapshot.board, s[2], s[1])
       IN /\ ~snapshot.board[s[1]][s[2]].isRevealed
          /\ run.visited = Cells(snapshot.board)
          /\ run.popped = Cardinality(Cells(snapshot.board))
          /\ \E f \in run.visited : snapshot.board[f[1]][f[2]].isFlagged

\* The flagged tiles of a board.
Flagged(board) == {p \in Cells(board) : board[p[1]][p[2]].isFlagged}

\* A call that has left every flag and the flag counter as they were, in every
\* snapshot it emitted.
SameFlags(w) ==
  \A i \in 1..Len(w.emitted) :
    /\ Flagged(w.emitted[i].board) = Flagged(snapshot.board)
    /\ w.emitted[i].flagsPlaced = snapshot.flagsPlaced

\* C35: the flag counter counts the flags. In every reachable state flagsPlaced
\* is the number of tiles with isFlagged = true, hence never negative; and no
\* reveal, chord or useHint, the first click with its mine placement and the
\* reveal or chord that loses the game included, changes isFlagged of any tile or
\* flagsPlaced.
C35_FlagsPlacedCountsFlags ==
  /\ snapshot.flagsPlaced = Cardinality(Flagged(snapshot.board))
  /\ snapshot.flagsPlaced >= 0
  /\ \A p \in Coordinates, clock \in ClockReadings :
       \A mp \in ShuffleOutcomes(snapshot, p[1], p[2]) :
         SameFlags(revealCall(World, p[1], p[2], mp, clock))
  /\ \A p \in Coordinates : SameFlags(chordCall(World, p[1], p[2]))
  /\ \A clock \in ClockReadings : \A mp \in HintShuffleOutcomes(snapshot) :
       SameFlags(useHintCall(World, mp, clock))

\* A lost game whose two flags, one of them on a mine that the loss has turned
\* over, are still in place and counted.
C35_Witness ==
  /\ snapshot.status = Lost
  /\ snapshot.flagsPlaced = 2
  /\ Cardinality(Flagged(snapshot.board)) = 2
  /\ \E p \in Flagged(snapshot.board) :
       snapshot.board[p[1]][p[2]].isMine /\ snapshot.board[p[1]][p[2]].isRevealed

\* C36: firstClick marks the Ready game. In every reachable state firstClick is
\* true exactly when the status is Ready; and while the status is Ready no tile of
\* the board is a mine, no tile is revealed, elapsedMs is 0 and startedAt is not
\* set.
C36_FirstClickIffReady ==
  /\ snapshot.firstClick <=> (snapshot.status = Ready)
  /\ (snapshot.status = Ready) =>
       /\ \A p \in Cells(snapshot.board) :
            /\ ~snapshot.board[p[1]][p[2]].isMine
            /\ ~snapshot.board[p[1]][p[2]].isRevealed
       /\ snapshot.elapsedMs = 0
       /\ snapshot.startedAt = Undefined

\* A Ready game that follows a game won with a time above 0: the new game holds
\* a flag and nothing of the game before it.
C36_Witness ==
  /\ snapshot.status = Ready /\ snapshot.firstClick
  /\ snapshot.flagsPlaced > 0
  /\ \E d \in Difficulties : store[d] > 0

\* C37: no mine is exposed while the game is live. In every reachable state whose
\* status is Ready, Playing or Won no mine is revealed; and on every reachable
\* board the flood fill from a tile that is no mine reveals no mine.
C37_NoMineExposed ==
  /\ (snapshot.status \in {Ready, Playing, Won}) => RevealedMines(snapshot.board) = {}
  /\ \A s \in Cells(snapshot.board) :
       ~snapshot.board[s[1]][s[2]].isMine =>
         RevealedMines(revealFloodFill(snapshot.board, s[2], s[1]))
           \subseteq RevealedMines(snapshot.board)

\* A game being played with two hidden mines, one of them without a flag, next to
\* a hidden safe tile from which the flood fill reveals a tile and stops short of
\* the mines.
C37_Witness ==
  /\ snapshot.status = Playing
  /\ MineCount(snapshot.board) = 2
  /\ \E m, s \in Cells(snapshot.board) :
       /\ snapshot.board[m[1]][m[2]].isMine /\ ~snapshot.board[m[1]][m[2]].isFlagged
       /\ ~snapshot.board[s[1]][s[2]].isMine /\ ~snapshot.board[s[1]][s[2]].isRevealed
       /\ ~snapshot.board[s[1]][s[2]].isFlagged
       /\ Adjacent(m, s)
       /\ revealFloodFill(snapshot.board, s[2], s[1]) # snapshot.board

\* The revealed tiles of a board.
Revealed(board) == {p \in Cells(board) : board[p[1]][p[2]].isRevealed}

\* A call after which every tile that was revealed is revealed, in every snapshot
\* it emitted.
KeepsRevealed(w) ==
  \A i \in 1..Len(w.emitted) : Revealed(snapshot.board) \subseteq Revealed(w.emitted[i].board)

\* A call that has either left the snapshot as it was or revealed a tile more.
RevealsMore(w) ==
  (w.snapshot # snapshot) =>
    Cardinality(Revealed(w.snapshot.board)) > Cardinality(Revealed(snapshot.board))

FlagsSurvive(w) ==
  \A i \in 1..Len(w.emitted) :
    LET e == w.emitted[i]
    IN /\ \A f \in Flagged(snapshot.board) :
            e.board[f[1]][f[2]].isFlagged /\ ~e.board[f[1]][f[2]].isRevealed
       /\ Flagged(e.board) = Flagged(snapshot.board)
       /\ e.flagsPlaced = snapshot.flagsPlaced
       /\ e.minesLeft = snapshot.minesLeft

\* C39: flags set while the status is Ready survive the first click. Whatever the
\* clicked tile and the outcome of the shuffle, the first reveal of a game (a
\* player's or the one useHint makes), with its mine placement and its opening
\* flood fill, leaves every flagged tile flagged and hidden and flagsPlaced
\* unchanged, the flagged tiles inside the 3x3 zone around the click and inside
\* the opened zero region included.
C39_FlagsSurviveFirstClick ==
  snapshot.firstClick =>
    /\ \A p \in Coordinates, clock \in ClockReadings :
         \A mp \in ShuffleOutcomes(snapshot, p[1], p[2]) :
           FlagsSurvive(revealCall(World, p[1], p[2], mp, clock))
    /\ \A clock \in ClockReadings : \A mp \in HintShuffleOutcomes(snapshot) :
         FlagsSurvive(useHintCall(World, mp, clock))

\* A game being played in which a flagged zero tile next to a revealed zero tile
\* is still hidden: the opening flood fill has passed it by; a second flag sits
\* on a mine.
C39_Witness ==
  /\ snapshot.status = Playing
  /\ snapshot.flagsPlaced = 2
  /\ \E f \in Flagged(snapshot.board) \cap ZeroTiles(snapshot.board) :
       /\ ~snapshot.board[f[1]][f[2]].isRevealed
       /\ \E z \in ZeroTiles(snapshot.board) \cap Revealed(snapshot.board) : Adjacent(f, z)
  /\ \E m \in Flagged(snapshot.board) : snapshot.board[m[1]][m[2]].isMine

\* A call that has handed to persistBestTime what it should: the Won snapshot of
\* the current game, once, when the call has won the game; nothing, and the store
\* untouched, when it has not.
PersistedOncePerWin(w) ==
  IF snapshot.status # Won /\ w.snapshot.status = Won
  THEN /\ Len(w.persisted) = 1
       /\ w.persisted[1].status = Won
       /\ w.persisted[1].board = w.snapshot.board
       /\ w.persisted[1].difficulty = snapshot.difficulty
  ELSE w.persisted = <<>> /\ w.store = store

\* C40: best-time persistence is triggered once per game won. In every reachable
\* state, the reveal, chord or hint that moves the game to Won calls
\* persistBestTime exactly once, with the Won snapshot; no other call does: none
\* that leaves the game Ready or Playing, none that loses it, none made on a game
\* that is Won or Lost already (so a game won is persisted once only), no
\* toggleFlag, no tick, and no newGame or restart that abandons a game.
C40_PersistOncePerWin ==
  /\ AfterEveryCommand(PersistedOncePerWin)
  /\ \A c \in Configs :
       LET w == newGameCall(World, c[1], c[2], c[3], snapshot.difficulty)
       IN w.persisted = <<>> /\ w.store = store /\ w.snapshot.status # Won
  /\ LET w == restartCall(World)
     IN w.persisted = <<>> /\ w.store = store /\ w.snapshot.status # Won

\* A game with two mines, both flagged, that has been won and whose time is in
\* the store, the tick stopped: the commands that follow on it persist nothing.
C40_Witness ==
  /\ snapshot.status = Won
  /\ MineCount(snapshot.board) = 2
  /\ Flagged(snapshot.board) = RevealedMines(revealAllMines(snapshot.board))
  /\ store[snapshot.difficulty] # NoEntry
  /\ timers = 0

====
